---- MODULE Spec2Model ----
(***************************************************************************)
(* Two-party external merge over single-slot file mailboxes               *)
(* (src/problem1/merge_worker.py): MergeWorker.step, the Coordinator's     *)
(* round-robin loop, the state file, the two message files and the shared  *)
(* append-only output file.                                                *)
(* RobustHTTPClient.fetch (src/problem2/http_client.py): the retry loop and *)
(* the handler calls it makes.                                             *)
(* EventLogger.run (src/q3/event_logger.py): the receive loop, the reorder  *)
(* buffer and the statistics.                                              *)
(***************************************************************************)
EXTENDS Integers, Sequences, FiniteSets, TLC

\* ------------------------------------------------------------------ bounds
\* Input runs are short (0..MaxShort values: one chunk, sent as the first move)
\* or long (ChunkSize..MaxLen values).  MaxLen is more than the chunk size, so
\* that a run needs a second chunk and the LOCK / UNLOCK handshake happens on
\* both sides.  Lengths between the two behave like the short ones.
MaxShort == 2
MaxLen == 12
\* Values of the input runs are 0..MaxVal.
MaxVal == 1
\* Largest explicit step budget handed to Coordinator.run (besides the default).
MaxBudget == 6
\* Most crashes of a worker process in one job.
MaxCrashes == 1
\* A malformed state file holds a cursor of up to len + MaxSkew.
MaxSkew == 2
\* Most messages a worker writes in a job that started from a malformed state
\* or in which a message of an unknown type arrived.
MaxWrites == 4
\* Most messages of an unknown type that a defective peer writes in one job.
MaxForeign == 1
\* The source delivers packets with the sequence numbers 0..MaxSeq.
MaxSeq == 3
\* Most packets the source delivers before it terminates.
MaxReceives == 4
\* EventLogger is constructed with buffer_size in 1..MaxBufferSize.
MaxBufferSize == 2

\* --------------------------------------------------------- program constants
\* merge_worker.py:133,157  "self.state['index'] + 11"
ChunkSize == 11
\* merge_worker.py:189  "max_steps: int = 10000"
DefaultMaxSteps == 10000
\* merge_worker.py:77,87  the separator ', ' as one token of the output file
SEP == -1
\* merge_worker.py:8  "msg_type: str   # Max 5 chars"
MsgTypeMax == 5
\* merge_worker.py:9  "values: list[int]  # Max 10 integers"
MsgValuesMax == 10
\* http_client.py:81  "MAX_RETRIES = 3"
MAX_RETRIES == 3

W == {"A", "B"}
\* test(): A's outbox is B's inbox and vice versa (lines 208-214)
Peer(w) == IF w = "A" THEN "B" ELSE "A"

UNLO == <<"U", "N", "L", "O">>
DONE == <<"D", "O", "N", "E">>

VARIABLES
    data,       \* data[w]: the worker's immutable sorted run
    max_steps,  \* argument of Coordinator.run
    store,      \* store[w]: the state file, <<>> (absent) or <<state>>
    mem,        \* mem[w]: self.state of the worker object
    stats,      \* stats[w]: self.stats of the worker object
    mail,       \* mail[w]: the outbox file of w (inbox of Peer(w)), <<>> or <<msg>>
    sink,       \* the output file, a sequence of value tokens and SEP tokens
    active,     \* Coordinator.run: active[w]
    steps,      \* Coordinator.run: steps
    cpc,        \* Coordinator.run: "A"/"B" = next worker of the for loop,
                \* "returned", "raised" (an exception left run), "free" (no coordinator)
    result,     \* the dict Coordinator.run returned, <<>> before
    hist,       \* history: what the last operation was and the files before it
    journal,    \* history: per worker, how often _save_state and write_msg ran
    twin,       \* the same job run by worker objects that are never re-constructed
    http,       \* RobustHTTPClient.fetch: its locals and the calls it made so far
    logger      \* EventLogger: its fields, its statistics and the log file

vars == <<data, max_steps, store, mem, stats, mail, sink, active, steps, cpc,
          result, hist, journal, twin, http, logger>>

\* the state of the merge job (src/problem1)
MergeVars == <<data, max_steps, store, mem, stats, mail, sink, active, steps, cpc,
               result, hist, journal, twin>>

\* the state of the other programs of the repository
Elsewhere == <<http, logger>>

\* ------------------------------------------------------------------ inputs
RECURSIVE SortedRuns(_, _)
\* all non-decreasing sequences over 0..hi of length <= n
SortedRuns(n, hi) ==
    IF n = 0 THEN {<<>>}
    ELSE LET P    == SortedRuns(n - 1, hi)
             Full == {p \in P : Len(p) = n - 1}
             Ext  == {x \in Full \X (0..hi) :
                         x[1] = <<>> \/ x[1][Len(x[1])] <= x[2]}
         IN  P \cup {Append(x[1], x[2]) : x \in Ext}

Lens == (0..MaxShort) \cup (ChunkSize..MaxLen)

Runs == {r \in SortedRuns(MaxLen, MaxVal) : Len(r) \in Lens}

\* runs of one repeated value: every length, no variety of values
PlainRuns == SortedRuns(MaxLen, 0)

Budgets == 0..MaxBudget

\* ------------------------------------------------------------ worker state
\* MergeWorker._initial_state
InitialState(w) == [phase |-> "INIT", index |-> 0, len |-> Len(data[w])]

\* Mutant of EntryState: step() keeps working on the object's self.state.
EntryStateStale(S, w) == S.mem[w]

\* MergeWorker._load_state on the files of world S
LoadState(S, w) == IF S.store[w] # <<>> THEN S.store[w][1] ELSE InitialState(w)

\* WorkerStats(0, 0, 0, 0)
ZeroStats == [comparisons |-> 0, messages_sent |-> 0,
              messages_received |-> 0, values_output |-> 0]

\* The files and worker objects of one job, as one value.
World == [store |-> store, mem |-> mem, stats |-> stats, mail |-> mail, sink |-> sink]

\* ------------------------------------------------------------- output_till
\* Mutant of ScanTo: output_till emits none of the worker's own values before
\* the boundary value.
ScanToStay(d, index, count, max_v) == index

RECURSIVE ScanTo(_, _, _, _)
\* the while loop of output_till: the index it stops at
ScanTo(d, index, count, max_v) ==
    IF index < count /\ d[index + 1] < max_v
    THEN ScanTo(d, index + 1, count, max_v)
    ELSE index

RECURSIVE Tokens(_, _)
\* what output_till writes for the values vals, given the flag `write`
Tokens(vals, write) ==
    IF vals = <<>> THEN <<>>
    ELSE (IF write THEN <<SEP>> ELSE <<>>) \o <<Head(vals)>> \o Tokens(Tail(vals), TRUE)

\* Mutant of OutputTill: the boundary value announced by the peer is never
\* written (lines 84-90 left out).
OutputTillOwnOnly(d, count, c, max_v, include) ==
    LET j   == ScanTo(d, c.index, count, max_v)
        own == SubSeq(d, c.index + 1, j)
    IN  [index         |-> j,
         write         |-> c.write \/ own # <<>>,
         out           |-> c.out \o Tokens(own, c.write),
         comparisons   |-> c.comparisons + (j - c.index),
         values_output |-> c.values_output + (j - c.index)]

\* One call output_till(max_v, include) of worker w.  c is the running context
\* of the step: the cursor, the flag `write`, the tokens appended so far, the
\* statistics.  The call's return value is Verdict(c', count).
OutputTill(d, count, c, max_v, include) ==
    LET j    == ScanTo(d, c.index, count, max_v)
        own  == SubSeq(d, c.index + 1, j)
        t1   == Tokens(own, c.write)
        w1   == c.write \/ own # <<>>
        t2   == IF include THEN Tokens(<<max_v>>, w1) ELSE <<>>
    IN  [index         |-> j,
         write         |-> w1 \/ include,
         out           |-> c.out \o t1 \o t2,
         comparisons   |-> c.comparisons + (j - c.index),
         values_output |-> c.values_output + (j - c.index) + (IF include THEN 1 ELSE 0)]

\* Mutant of Verdict: output_till reports DONE whatever the cursor.
VerdictAlwaysDone(c, count) == "DONE"

\* lines 91-93: the value output_till returns
Verdict(c, count) == IF c.index >= count THEN "DONE" ELSE "LOCK"

RECURSIVE OutputAll(_, _, _, _)
\* "for i in inbox_value: self.state['phase'] = output_till(i, True)"
OutputAll(d, count, c, vals) ==
    IF vals = <<>> THEN c
    ELSE OutputAll(d, count, OutputTill(d, count, c, Head(vals), TRUE), Tail(vals))

\* data[index:nextindex] of Python, for 0 <= index
Slice(d, from, to) ==
    LET hi == IF to < Len(d) THEN to ELSE Len(d)
    IN  IF from >= hi THEN <<>> ELSE SubSeq(d, from + 1, hi)

Min(a, b) == IF a < b THEN a ELSE b

\* ------------------------------------------------------------------- step
\* Mutant of Stamp: the flag `write` is not handed on.
StampNoFlag(kind, values, write) ==
    [msg_type |-> <<"F">> \o kind, values |-> values]

\* The message a step builds: Message(kind, values), then lines 166-169
\* prefix the type with 'T' or 'F' from the flag `write`.
Stamp(kind, values, write) ==
    [msg_type |-> <<IF write THEN "T" ELSE "F">> \o kind, values |-> values]

\* line 110: the state a step works on is re-read from the state file
EntryState(S, w) == LoadState(S, w)

\* Mutant of IsFinished: the early return of lines 112-114 is missing.
IsFinishedNever(st) == FALSE

\* line 112: the loaded phase is DONE
IsFinished(st) == st.phase = "DONE"

\* Mutant of Unlocks: a locked worker also goes on when no message arrived.
UnlocksUnasked(st, has, tag) == st.phase = "LOCK" /\ (has => tag \in {DONE, UNLO})

\* Mutant of Unlocks: a locked worker goes on whether or not a message arrived.
UnlocksAlways(st, has, tag) == st.phase = "LOCK"

\* lines 122-123: a locked worker is unlocked by a DONE or UNLO message
Unlocks(st, has, tag) == st.phase = "LOCK" /\ has /\ tag \in {DONE, UNLO}

\* Mutant of FirstMove: the branch of lines 135-142 is never taken.
FirstMoveNever(phase, has) == FALSE

\* line 135: the first move of the job
FirstMove(phase, has) == phase = "INIT" /\ ~has

\* Mutant of PeerFinished: a DONE message is handled like a chunk.
PeerFinishedNever(has, tag) == FALSE

\* line 143: the message says the peer is done
PeerFinished(has, tag) == has /\ tag = DONE

\* Mutant of NextIndex: a chunk of one value more.
NextIndexWide(count, index) == Min(count, index + ChunkSize + 1)

\* Mutant of NextIndex: the cursor is capped at the last position of the run.
NextIndexRewind(count, index) == Min(count - 1, index + ChunkSize)

\* lines 133, 157: nextindex
NextIndex(count, index) == Min(count, index + ChunkSize)

\* MergeWorker.step of worker w on the files and objects of world S, as the
\* list of its effects in the order the code performs them:
\*   st0      the state loaded at line 110
\*   consumed read_inbox found a message and unlinked it
\*   out      the tokens appended to the output file
\*   st1      self.state when the step ends
\*   saved    _save_state was reached (line 165)
\*   msg      <<>> or <<m>>, the message write_msg wrote
\*   ret      "True", "False" or "IndexError" (line 149 on an empty run)
Plan(S, w) ==
    LET d      == data[w]
        st0    == EntryState(S, w)
        inbox  == S.mail[Peer(w)]
        has    == inbox # <<>>
        write0 == has /\ Head(inbox[1].msg_type) = "T"
        tag    == IF has THEN Tail(inbox[1].msg_type) ELSE <<>>
        vals   == IF has THEN inbox[1].values ELSE <<>>
        count  == st0.len
        c0     == [index |-> st0.index, write |-> write0, out |-> <<>>,
                   comparisons |-> 0, values_output |-> 0]
        unlock == Unlocks(st0, has, tag)
        phase1 == IF unlock THEN "UNLOCK" ELSE st0.phase
        cL     == OutputAll(d, count, c0, vals)
        phaseL == IF vals # <<>> THEN Verdict(cL, count) ELSE phase1
        quiet  == [st0 |-> st0, consumed |-> FALSE, c |-> c0, st1 |-> st0,
                   saved |-> FALSE, msg |-> <<>>, ret |-> "False"]
    IN  IF IsFinished(st0) THEN
            \* lines 112-114
            quiet
        ELSE IF st0.phase = "LOCK" /\ ~unlock THEN
            \* lines 122-126: still locked
            [quiet EXCEPT !.consumed = has, !.ret = "True"]
        ELSE IF FirstMove(phase1, has) THEN
            \* lines 135-142: first move
            LET nextindex == NextIndex(count, st0.index)
                fin       == nextindex >= count
            IN  [st0 |-> st0, consumed |-> has, c |-> c0,
                 st1 |-> [st0 EXCEPT !.index = nextindex,
                                     !.phase = IF fin THEN "DONE" ELSE "LOCK"],
                 saved |-> TRUE,
                 msg |-> <<Stamp(IF fin THEN DONE ELSE UNLO,
                                 Slice(d, st0.index, nextindex), c0.write)>>,
                 ret |-> IF fin THEN "False" ELSE "True"]
        ELSE IF PeerFinished(has, tag) THEN
            \* lines 143-150: the peer is done
            IF d = <<>> THEN
                \* self.data[-1] raises IndexError; nothing is saved or sent
                [st0 |-> st0, consumed |-> has, c |-> cL,
                 st1 |-> [st0 EXCEPT !.index = cL.index, !.phase = phaseL],
                 saved |-> FALSE, msg |-> <<>>, ret |-> "IndexError"]
            ELSE
                LET cF == OutputTill(d, count, cL, d[Len(d)] + 1, FALSE)
                    ph == Verdict(cF, count)
                IN  [st0 |-> st0, consumed |-> has, c |-> cF,
                     st1 |-> [st0 EXCEPT !.index = cF.index, !.phase = ph],
                     saved |-> TRUE,
                     msg |-> <<Stamp(DONE, <<>>, cF.write)>>,
                     ret |-> IF ph = "DONE" THEN "False" ELSE "True"]
        ELSE
            \* lines 152-163: steady state
            LET nextindex == NextIndex(count, cL.index)
                fin       == phaseL = "DONE"
            IN  [st0 |-> st0, consumed |-> has, c |-> cL,
                 st1 |-> [st0 EXCEPT !.index = nextindex,
                                     !.phase = IF fin THEN "DONE" ELSE "LOCK"],
                 saved |-> TRUE,
                 msg |-> <<Stamp(IF fin THEN DONE ELSE UNLO,
                                 Slice(d, cL.index, nextindex), cL.write)>>,
                 ret |-> IF fin THEN "False" ELSE "True"]

\* Mutant of StatsAfter: the return of line 173 is missing, so that a worker
\* that finishes runs write_msg at line 172 and again at line 175.
StatsAfterFallThrough(old, p, sent) ==
    [comparisons       |-> old.comparisons + p.c.comparisons,
     messages_sent     |-> old.messages_sent +
                             (IF ~sent THEN 0 ELSE IF p.st1.phase = "DONE" THEN 2 ELSE 1),
     messages_received |-> old.messages_received + (IF p.consumed THEN 1 ELSE 0),
     values_output     |-> old.values_output + p.c.values_output]

\* The statistics of w after the effects p; sent says whether write_msg ran.
StatsAfter(old, p, sent) ==
    [comparisons       |-> old.comparisons + p.c.comparisons,
     messages_sent     |-> old.messages_sent + (IF sent THEN 1 ELSE 0),
     messages_received |-> old.messages_received + (IF p.consumed THEN 1 ELSE 0),
     values_output     |-> old.values_output + p.c.values_output]

\* read_inbox: the inbox file of w is unlinked when it existed
Unlinked(S, w, p) == IF p.consumed THEN [S.mail EXCEPT ![Peer(w)] = <<>>] ELSE S.mail

\* The world after a whole step() of w.
Complete(S, w, p) ==
    [store |-> IF p.saved THEN [S.store EXCEPT ![w] = <<p.st1>>] ELSE S.store,
     mem   |-> [S.mem EXCEPT ![w] = p.st1],
     stats |-> [S.stats EXCEPT ![w] = StatsAfter(S.stats[w], p, p.msg # <<>>)],
     mail  |-> IF p.msg # <<>> THEN [Unlinked(S, w, p) EXCEPT ![w] = p.msg]
                               ELSE Unlinked(S, w, p),
     sink  |-> S.sink \o p.c.out]

\* MergeWorker.__init__: a new worker object over the same files
Construct(S, w) ==
    [S EXCEPT !.mem[w] = LoadState(S, w), !.stats[w] = ZeroStats]

\* ------------------------------------------------- RobustHTTPClient.fetch
\* http_client.py:86
MONITORED_KEYWORDS == <<"error", "success", "data", "result">>

\* One call that fetch made: urlopen, a method of the handler, or sleep.
\* attempt is the value of the local `attempt` when the call was made, arg the
\* keyword (on_body_match) or the reason (on_retry, on_max_retries).
Call(ev, attempt, arg) == [ev |-> ev, attempt |-> attempt, arg |-> arg]

\* No fetch is running.  got: the outcomes of the urlopen calls so far; log: the
\* calls made so far; reason: the local `reason`, unbound until an except clause
\* or line 144 assigns it.
HttpIdle == [pc |-> "idle", attempt |-> 0, reason |-> "unbound", got |-> <<>>,
             log |-> <<>>, ret |-> "none"]

\* bodies of 2xx responses, as the set of monitored keywords their text contains
Bodies == {{}, {"data"}, {"error", "success"}}

\* What urlopen(url) and resp.read() do: return a response (urllib returns only
\* 2xx responses and raises HTTPError for the other statuses it does not
\* follow), raise HTTPError, raise TimeoutError, or raise URLError, whose reason
\* says "timed out" or not.
Outcomes ==
    {[how |-> "response", status |-> st, body |-> b, slow |-> sl, timed_out |-> FALSE] :
        st \in {200, 204}, b \in Bodies, sl \in BOOLEAN}
    \cup {[how |-> "HTTPError", status |-> st, body |-> {}, slow |-> FALSE,
           timed_out |-> FALSE] : st \in {304, 404, 429, 500, 503}}
    \cup {[how |-> "TimeoutError", status |-> 0, body |-> {}, slow |-> FALSE,
           timed_out |-> TRUE]}
    \cup {[how |-> "URLError", status |-> 0, body |-> {}, slow |-> FALSE,
           timed_out |-> t] : t \in BOOLEAN}

\* line 129: body.decode(error='ignore').lower().  bytes.decode has the keyword
\* `errors` and no keyword `error`: the call raises TypeError for every body.
DecodeLower(body) == [raised |-> TRUE, text |-> {}]

\* lines 128-134: the on_body_match calls; an exception ends them silently
BodyMatches(body, attempt) ==
    LET t    == DecodeLower(body)
        hits == SelectSeq(MONITORED_KEYWORDS, LAMBDA kw : kw \in t.text)
    IN  IF t.raised THEN <<>>
        ELSE [i \in 1..Len(hits) |-> Call("on_body_match", attempt, hits[i])]

\* Mutant of IsClientError: no status counts as a client error.
IsClientErrorNever(status) == FALSE

\* lines 138, 150: a 4xx status
IsClientError(status) == 399 < status /\ status < 500

\* Mutant of Exhausted: one retry more.
ExhaustedLate(attempt) == attempt > MAX_RETRIES

\* line 169
Exhausted(attempt) == attempt >= MAX_RETRIES

\* lines 115-167: the try statement of one iteration of the loop, for the
\* outcome o of urlopen.  calls: the handler calls; reason: the local `reason`
\* afterwards; ret: "True" or "False" when fetch returns here, else "none".
Handle(h, o) ==
    LET n == h.attempt
        failed(ev, why) == [calls |-> <<Call(ev, n, "")>>, reason |-> why, ret |-> "none"]
        client_error == [calls |-> <<Call("on_client_error", n, "")>>,
                         reason |-> h.reason, ret |-> "False"]
    IN  IF o.how = "response" THEN
            IF 199 < o.status /\ o.status < 300 THEN
                [calls  |-> <<Call("on_success", n, "")>>
                            \o (IF o.slow THEN <<Call("on_slow_response", n, "")>> ELSE <<>>)
                            \o BodyMatches(o.body, n),
                 reason |-> h.reason, ret |-> "True"]
            ELSE IF IsClientError(o.status) THEN client_error
            ELSE IF 499 < o.status /\ o.status < 600 THEN failed("on_server_error", "server_error")
            ELSE [calls |-> <<>>, reason |-> h.reason, ret |-> "none"]
        ELSE IF o.how = "HTTPError" THEN
            IF IsClientError(o.status) THEN client_error
            ELSE failed("on_server_error", "server_error")
        ELSE IF o.how = "TimeoutError" THEN failed("on_timeout", "timeout")
        ELSE IF o.timed_out THEN failed("on_timeout", "timeout")
        ELSE failed("on_connection_error", "connection")

\* One iteration of "while True" (lines 113-176): urlopen with outcome o, the
\* try statement, then on_max_retries and return, or on_retry and sleep.
\* Reading `reason` while it is unbound raises UnboundLocalError.
Iteration(h, o) ==
    LET r    == Handle(h, o)
        seen == [h EXCEPT !.got = Append(@, o),
                          !.log = @ \o <<Call("urlopen", h.attempt, "")>> \o r.calls,
                          !.reason = r.reason]
    IN  IF r.ret # "none" THEN
            [seen EXCEPT !.pc = "returned", !.ret = r.ret]
        ELSE IF r.reason = "unbound" THEN
            [seen EXCEPT !.pc = "raised", !.ret = "UnboundLocalError",
                         !.attempt = IF Exhausted(h.attempt) THEN @ ELSE @ + 1]
        ELSE IF Exhausted(h.attempt) THEN
            [seen EXCEPT !.pc = "returned", !.ret = "False",
                         !.log = @ \o <<Call("on_max_retries", h.attempt, r.reason)>>]
        ELSE
            [seen EXCEPT !.attempt = @ + 1,
                         !.log = @ \o <<Call("on_retry", h.attempt + 1, r.reason),
                                        Call("sleep", h.attempt + 1, "")>>]

\* ---------------------------------------------------------- EventLogger
\* LoggerStats(0, ..., 0): lines 63-74
ZeroLoggerStats ==
    [packets_received |-> 0, packets_written |-> 0, duplicates_discarded |-> 0,
     corrupted_packets |-> 0, retransmit_requests |-> 0, retransmits_received |-> 0,
     inversions |-> 0, gaps |-> 0, buffer_flushes |-> 0, final_buffer_size |-> 0]

\* EventLogger.__init__ (lines 35-46) with buffer_size = size, and an empty log
\* file.  buffer: the sequence numbers of the buffered packets; status: a
\* function on the sequence numbers that have a status; asked: the calls of
\* source.request_retransmit; log: the lines of the log file.
NewLogger(size) ==
    [pc |-> "constructed", buffer_size |-> size, buffer |-> <<>>, seen_sequences |-> {},
     last_written_seq |-> -1, written |-> {}, pending_retransmits |-> {},
     status |-> <<>>, max_receive |-> -1, stats |-> ZeroLoggerStats,
     asked |-> <<>>, log |-> <<>>, got |-> <<>>]

\* no EventLogger exists
LoggerIdle == [NewLogger(0) EXCEPT !.pc = "idle"]

\* What source.receive() returns besides None: a packet with a sequence number,
\* whose checksum is valid or not (verify_checksum, message_source.py:292-294).
Packets == [sequence : 0..MaxSeq, valid : BOOLEAN]

Max(a, b) == IF a > b THEN a ELSE b

\* self.status[seq] = st
SetStatus(status, seq, st) ==
    [k \in (DOMAIN status) \cup {seq} |-> IF k = seq THEN st ELSE status[k]]

RECURSIVE InsertSorted(_, _)
InsertSorted(q, x) ==
    IF q = <<>> THEN <<x>>
    ELSE IF x < Head(q) THEN <<x>> \o q
    ELSE <<Head(q)>> \o InsertSorted(Tail(q), x)

RECURSIVE Sorted(_)
\* self.buffer.sort(key=lambda x: x.sequence)
Sorted(q) == IF q = <<>> THEN <<>> ELSE InsertSorted(Sorted(Tail(q)), Head(q))

\* EventLogger._handle_packet (lines 158-174)
HandlePacket(L, seq) ==
    IF seq \in L.written THEN L
    ELSE LET retr == seq \in L.pending_retransmits
             st1  == IF retr THEN SetStatus(L.status, seq, "RETRANSMIT") ELSE L.status
             st2  == IF seq \notin DOMAIN st1 THEN SetStatus(st1, seq, "OK") ELSE st1
         IN  [L EXCEPT !.written = @ \cup {seq},
                       !.last_written_seq = Max(@, seq),
                       !.status = st2,
                       !.pending_retransmits = @ \ {seq},
                       !.stats.packets_written = @ + 1,
                       !.stats.inversions = @ + (IF st2[seq] = "LATE" THEN 1 ELSE 0),
                       !.log = Append(@, [sequence |-> seq, status |-> st2[seq]])]

\* EventLogger._should_flush (lines 176-181): the buffer is sorted in any case
ShouldFlushSorts(L) == [L EXCEPT !.buffer = Sorted(@)]
ShouldFlush(L) == Len(L.buffer) = L.buffer_size

RECURSIVE FlushEach(_, _)
\* the for loop of _flush_buffer over the packets q (lines 186-191)
FlushEach(L, q) ==
    IF q = <<>> THEN L
    ELSE LET i  == Head(q)
             st == IF i < L.last_written_seq THEN "LATE" ELSE "OK"
         IN  FlushEach(HandlePacket([L EXCEPT !.status = SetStatus(@, i, st)], i), Tail(q))

\* EventLogger._flush_buffer (lines 183-192)
FlushBuffer(L) ==
    [FlushEach([L EXCEPT !.stats.buffer_flushes = @ + 1], L.buffer) EXCEPT !.buffer = <<>>]

\* lines 148-150, and lines 94-96: request_retransmit, counted and remembered
RequestRetransmit(L, seq) ==
    [L EXCEPT !.asked = Append(@, seq),
              !.stats.retransmit_requests = @ + 1,
              !.pending_retransmits = @ \cup {seq}]

RECURSIVE DrainWhile(_)
\* lines 140-143: the while loop over the sorted buffer
DrainWhile(L) ==
    IF L.buffer # <<>> /\ Head(L.buffer) = L.last_written_seq + 1
    THEN DrainWhile([HandlePacket(L, Head(L.buffer)) EXCEPT !.buffer = Tail(L.buffer)])
    ELSE L

\* lines 131-150: the end of an iteration that did not `continue`
EndOfIteration(L) ==
    LET expect    == L.last_written_seq + 1
        expect_in == \E k \in 1..Len(L.buffer) : L.buffer[k] = expect
        L1 == IF expect_in
              THEN [DrainWhile([L EXCEPT !.buffer = Sorted(@)])
                      EXCEPT !.stats.buffer_flushes = @ + 1]
              ELSE L
        expect1   == L1.last_written_seq + 1
    IN  IF 10 * Len(L1.buffer) > 8 * L1.buffer_size /\ expect1 \notin L1.pending_retransmits
        THEN RequestRetransmit(L1, expect1)
        ELSE L1

\* lines 116-129: a packet that is ahead of the next expected one
Ahead(L, seq) ==
    LET S == ShouldFlushSorts(L)
        n == Len(S.buffer)
    IN  IF ShouldFlush(S) THEN
            IF n > 0 /\ seq < S.buffer[1] THEN FlushBuffer(HandlePacket(S, seq))
            ELSE IF n > 0 /\ seq > S.buffer[n] THEN
                IF S.buffer[n] = seq - 1
                THEN HandlePacket(FlushBuffer(S), seq)
                ELSE [FlushBuffer(S) EXCEPT !.buffer = Append(@, seq)]
            ELSE S
        ELSE [S EXCEPT !.buffer = Append(@, seq)]

\* Mutant of Receive: every packet with a valid checksum is written as it comes.
ReceiveAsItComes(L, pkt) ==
    LET L0 == [L EXCEPT !.got = Append(@, pkt),
                        !.max_receive = Max(@, pkt.sequence),
                        !.stats.packets_received = @ + 1]
    IN  IF ~pkt.valid THEN L0
        ELSE [L0 EXCEPT !.written = @ \cup {pkt.sequence},
                        !.last_written_seq = Max(@, pkt.sequence),
                        !.stats.packets_written = @ + 1,
                        !.log = Append(@, [sequence |-> pkt.sequence, status |-> "OK"])]

\* One iteration of the loop of run (lines 76-150) for the packet pkt that
\* source.receive() returned.
Receive(L, pkt) ==
    LET seq == pkt.sequence
        L0  == [L EXCEPT !.got = Append(@, pkt),
                         !.max_receive = Max(@, seq),
                         !.stats.packets_received = @ + 1,
                         !.stats.retransmits_received =
                             @ + (IF seq \in L.pending_retransmits THEN 1 ELSE 0)]
    IN  IF seq \in L0.seen_sequences THEN
            \* lines 87-89
            [L0 EXCEPT !.stats.duplicates_discarded = @ + 1]
        ELSE IF ~pkt.valid THEN
            \* lines 92-97
            RequestRetransmit([L0 EXCEPT !.stats.corrupted_packets = @ + 1], seq)
        ELSE
            LET L1 == [L0 EXCEPT !.seen_sequences = @ \cup {seq},
                                 !.pending_retransmits = @ \ {seq}]
            IN  IF L1.last_written_seq + 1 = seq THEN
                    \* lines 105-109
                    HandlePacket([L1 EXCEPT !.status = IF seq \in DOMAIN @ THEN @
                                                      ELSE SetStatus(@, seq, "OK")], seq)
                ELSE IF L1.last_written_seq > seq THEN
                    \* lines 112-114
                    EndOfIteration(HandlePacket(
                        [L1 EXCEPT !.status = SetStatus(@, seq, "LATE")], seq))
                ELSE IF L1.last_written_seq < seq - 1 THEN
                    EndOfIteration(Ahead(L1, seq))
                ELSE EndOfIteration(L1)

\* source.receive() returned None: lines 78-79 and 151-154
Terminate(L) ==
    LET L1 == FlushBuffer([L EXCEPT !.stats.final_buffer_size = Len(L.buffer)])
    IN  [L1 EXCEPT !.stats.gaps = L1.max_receive - L1.stats.packets_written,
                   !.pc = "returned"]

\* ------------------------------------------------------------------ states
\* test(): every file is removed, then the two workers are constructed.
FreshWorld ==
    [store |-> [w \in W |-> <<>>],
     mem   |-> [w \in W |-> InitialState(w)],
     stats |-> [w \in W |-> ZeroStats],
     mail  |-> [w \in W |-> <<>>],
     sink  |-> <<>>]

\* hist: the last operation (op), its worker (w), the world before it (pre), what
\* step() returned (ret) and what it returned to the twin (tret)
NoHist == [op |-> "none", w |-> "A", pre |-> FreshWorld, ret |-> "none", tret |-> "none"]

\* journal: per worker the _save_state calls, the write_msg calls and the DONE
\* messages among them; the crashes so far; the messages of an unknown type
\* that were put into a mailbox so far
NoJournal == [saves   |-> [w \in W |-> 0],
              writes  |-> [w \in W |-> 0],
              finals  |-> [w \in W |-> 0],
              crashes |-> 0,
              foreign |-> 0]

\* the journal after the effects p of worker w, of which write_msg ran iff sent
Journal(w, p, sent) ==
    [saves   |-> [journal.saves EXCEPT ![w] = @ + (IF p.saved THEN 1 ELSE 0)],
     writes  |-> [journal.writes EXCEPT ![w] = @ + (IF sent THEN 1 ELSE 0)],
     finals  |-> [journal.finals EXCEPT
                   ![w] = @ + (IF sent /\ Tail(p.msg[1].msg_type) = DONE THEN 1 ELSE 0)],
     crashes |-> journal.crashes,
     foreign |-> journal.foreign]

InitJob ==
    /\ store = FreshWorld.store
    /\ mem = FreshWorld.mem
    /\ stats = FreshWorld.stats
    /\ mail = FreshWorld.mail
    /\ sink = FreshWorld.sink
    /\ hist = NoHist
    /\ journal = NoJournal
    /\ twin = FreshWorld
    /\ active = [w \in W |-> TRUE]
    /\ steps = 0
    /\ result = <<>>
    /\ http = HttpIdle
    /\ logger = LoggerIdle

\* Coordinator(worker_a, worker_b).run(): the default step budget
Init ==
    /\ data \in [W -> Runs]
    /\ InitJob
    /\ max_steps = DefaultMaxSteps
    /\ cpc = "A"

\* Coordinator(worker_a, worker_b).run(max_steps) with a small step budget
InitBudget ==
    /\ data \in [W -> Runs]
    /\ InitJob
    /\ max_steps \in Budgets
    /\ cpc = "A"

\* no Coordinator: the caller invokes step() of either worker in any order; the
\* runs are of every length up to MaxLen, of one repeated value
InitPlain ==
    /\ data \in [W -> PlainRuns]
    /\ InitJob
    /\ max_steps = DefaultMaxSteps
    /\ cpc = "free"

\* the files and objects become those of world S
Become(S) ==
    \E T \in {S} :
        /\ store' = T.store
        /\ mem' = T.mem
        /\ stats' = T.stats
        /\ mail' = T.mail
        /\ sink' = T.sink

CoordVars == <<max_steps, active, steps, cpc, result>>

\* ------------------------------------------------------------- Coordinator
\* "while any(active) and steps < max_steps", evaluated when the for loop starts
LoopCondition == (\E w \in W : active[w]) /\ steps < max_steps

\* Mutant of AfterVisit: the for loop visits the same worker again.
AfterVisitAgain(w, raised) == IF raised THEN "raised" ELSE w

AfterVisit(w, raised) == IF raised THEN "raised" ELSE Peer(w)

\* lines 195-198: the for loop reaches worker w, which is active
CoordVisit(w) ==
    /\ cpc = w
    /\ w = "A" => LoopCondition
    /\ active[w]
    /\ \E p \in {Plan(World, w)} :
           /\ Become(Complete(World, w, p))
           /\ hist' = [op |-> "step", w |-> w, pre |-> World, ret |-> p.ret,
                       tret |-> "none"]
           /\ journal' = Journal(w, p, p.msg # <<>>)
           /\ IF p.ret = "IndexError"
              THEN \* the exception leaves run: lines 197-198 do not complete
                   UNCHANGED <<active, steps>>
              ELSE /\ active' = [active EXCEPT ![w] = (p.ret = "True")]
                   /\ steps' = steps + 1
           /\ cpc' = AfterVisit(w, p.ret = "IndexError")
    /\ UNCHANGED <<Elsewhere, data, max_steps, result, twin>>

\* lines 195-196: the for loop reaches worker w, which is no longer active
CoordSkip(w) ==
    /\ cpc = w
    /\ w = "A" => LoopCondition
    /\ ~active[w]
    /\ cpc' = Peer(w)
    /\ hist' = [hist EXCEPT !.op = "skip", !.w = w]
    /\ UNCHANGED <<Elsewhere, data, max_steps, store, mem, stats, mail, sink, active, steps,
                   result, journal, twin>>

\* lines 200-205: the while loop ends and run returns its dict
CoordReturn ==
    /\ cpc = "A"
    /\ ~LoopCondition
    /\ cpc' = "returned"
    /\ result' = <<[success |-> ~(\E w \in W : active[w]), total_steps |-> steps]>>
    /\ hist' = [hist EXCEPT !.op = "return"]
    /\ UNCHANGED <<Elsewhere, data, max_steps, store, mem, stats, mail, sink, active, steps,
                   journal, twin>>

Next ==
    \/ \E w \in W : CoordVisit(w)
    \/ \E w \in W : CoordSkip(w)
    \/ CoordReturn

Spec == Init /\ [][Next]_vars

SpecBudget == InitBudget /\ [][Next]_vars

\* ------------------------------------------------------ free scheduling
\* the caller invokes step() of worker w
FreeStep(w) ==
    /\ cpc = "free"
    /\ \E p \in {Plan(World, w)} :
           /\ Become(Complete(World, w, p))
           /\ hist' = [op |-> "step", w |-> w, pre |-> World, ret |-> p.ret,
                       tret |-> "none"]
           /\ journal' = Journal(w, p, p.msg # <<>>)
    /\ UNCHANGED <<Elsewhere, data, twin, CoordVars>>

NextFree == \E w \in W : FreeStep(w)

SpecFree == InitPlain /\ [][NextFree]_vars

\* no Coordinator, two non-empty runs of every mix of values, of one value, of
\* a few values and of more than one chunk: the caller invokes step() of
\* either worker in any order
InitSchedule ==
    /\ data \in [W -> {r \in Runs : Len(r) \in {1, MaxShort, MaxLen}}]
    /\ InitJob
    /\ max_steps = DefaultMaxSteps
    /\ cpc = "free"

\* step() of worker w would leave every file and object as it is
Idle(w) == \A p \in {Plan(World, w)} : Complete(World, w, p) = World

\* A caller that steps each worker again and again until it is DONE.  A worker
\* that has just been stepped is Idle, and so is a DONE worker: such a caller
\* finds each worker Idle again and again.
SpecSchedule == InitSchedule /\ [][NextFree]_vars /\ []<>Idle("A") /\ []<>Idle("B")

\* ------------------------------------------------- restart of a worker
\* step() of worker w, called on the job's worker object and on its twin
TwinStep(w) ==
    /\ cpc = "free"
    /\ \E p \in {Plan(World, w)}, q \in {Plan(twin, w)} :
           /\ Become(Complete(World, w, p))
           /\ twin' = Complete(twin, w, q)
           /\ hist' = [op |-> "step", w |-> w, pre |-> World, ret |-> p.ret,
                       tret |-> q.ret]
           /\ journal' = Journal(w, p, p.msg # <<>>)
    /\ UNCHANGED <<Elsewhere, data, CoordVars>>

\* Between two steps the worker object of w is discarded and a new one is
\* constructed over the same files; the twin keeps its object.
Restart(w) ==
    /\ cpc = "free"
    /\ Become(Construct(World, w))
    /\ hist' = [op |-> "restart", w |-> w, pre |-> World, ret |-> "none",
                tret |-> "none"]
    /\ UNCHANGED <<Elsewhere, data, journal, twin, CoordVars>>

NextResume ==
    \/ \E w \in W : TwinStep(w)
    \/ \E w \in W : Restart(w)

SpecResume == InitPlain /\ [][NextResume]_vars

\* --------------------------------------------------- crash inside step()
\* The process of worker w dies inside step() before _save_state (line 165):
\* the inbox file is already unlinked, the first k tokens of the step's output
\* are in the output file, nothing else happened.  The worker is then
\* constructed again from its files.
CrashBeforeSave(w) ==
    /\ cpc = "free"
    /\ journal.crashes < MaxCrashes
    /\ \E p \in {Plan(World, w)} :
           /\ ~IsFinished(p.st0)
           /\ \E k \in 0..Len(p.c.out) :
                Become(Construct([World EXCEPT !.mail = Unlinked(World, w, p),
                                               !.sink = sink \o SubSeq(p.c.out, 1, k)],
                                 w))
    /\ hist' = [op |-> "crash", w |-> w, pre |-> World, ret |-> "none", tret |-> "none"]
    /\ journal' = [journal EXCEPT !.crashes = @ + 1]
    /\ UNCHANGED <<Elsewhere, data, twin, CoordVars>>

\* Mutant of CrashAfterSave: write_msg comes before _save_state, and the process
\* of worker w dies between the two.
CrashAfterWrite(w) ==
    /\ cpc = "free"
    /\ journal.crashes < MaxCrashes
    /\ \E p \in {Plan(World, w)} :
           /\ p.saved
           /\ Become(Construct(Complete(World, w, [p EXCEPT !.saved = FALSE]), w))
           /\ journal' = [Journal(w, [p EXCEPT !.saved = FALSE], p.msg # <<>>)
                             EXCEPT !.crashes = @ + 1]
    /\ hist' = [op |-> "crash", w |-> w, pre |-> World, ret |-> "none", tret |-> "none"]
    /\ UNCHANGED <<Elsewhere, data, twin, CoordVars>>

\* The process of worker w dies between _save_state (line 165) and write_msg
\* (lines 172, 175): everything but the outgoing message happened.
CrashAfterSave(w) ==
    /\ cpc = "free"
    /\ journal.crashes < MaxCrashes
    /\ \E p \in {Plan(World, w)} :
           /\ p.saved
           /\ Become(Construct(Complete(World, w, [p EXCEPT !.msg = <<>>]), w))
           /\ journal' = [Journal(w, p, FALSE) EXCEPT !.crashes = @ + 1]
    /\ hist' = [op |-> "crash", w |-> w, pre |-> World, ret |-> "none", tret |-> "none"]
    /\ UNCHANGED <<Elsewhere, data, twin, CoordVars>>

NextCrash ==
    \/ \E w \in W : FreeStep(w)
    \/ \E w \in W : CrashBeforeSave(w)
    \/ \E w \in W : CrashAfterSave(w)

SpecCrash == InitPlain /\ [][NextCrash]_vars

\* ----------------------------------- a message of an unknown type
\* message types that step() never writes
ForeignTags == {<<"P", "I", "N", "G">>}

\* A defective peer of worker w writes a message of an unknown type into the
\* inbox of w, which is empty.
ForeignMessage(w) ==
    /\ cpc = "free"
    /\ journal.foreign < MaxForeign
    /\ mail[Peer(w)] = <<>>
    /\ \E tag \in ForeignTags, flag \in {"T", "F"}, vals \in {<<>>, <<0>>} :
          mail' = [mail EXCEPT ![Peer(w)] = <<[msg_type |-> <<flag>> \o tag,
                                               values |-> vals]>>]
    /\ hist' = [op |-> "foreign", w |-> w, pre |-> World, ret |-> "none", tret |-> "none"]
    /\ journal' = [journal EXCEPT !.foreign = @ + 1]
    /\ UNCHANGED <<Elsewhere, data, store, mem, stats, sink, twin, CoordVars>>

\* step() of worker w.  (After a message of an unknown type two workers can
\* exchange empty UNLO messages for ever; the job is followed for MaxWrites
\* messages of each worker.)
ForeignStep(w) ==
    /\ journal.writes[w] < MaxWrites
    /\ FreeStep(w)

NextForeign ==
    \/ \E w \in W : ForeignStep(w)
    \/ \E w \in W : ForeignMessage(w)

SpecForeign == InitPlain /\ [][NextForeign]_vars

\* ------------------------------------------- a malformed state file
\* the phases step() tests for or assigns
Phases == {"INIT", "LOCK", "UNLOCK", "DONE"}

\* a phase the code never writes
UnknownPhases == {"WAIT"}

\* a state file no step() of worker w wrote: the cursor is beyond the run length,
\* or the phase is unknown
MalformedStates(w) ==
    LET n == Len(data[w])
    IN  {[phase |-> ph, index |-> i, len |-> n] :
            ph \in Phases, i \in (n + 1)..(n + MaxSkew)}
        \cup {[phase |-> ph, index |-> i, len |-> n] : ph \in UnknownPhases, i \in 0..n}

IsMalformed(st) == st.index > st.len \/ st.phase \notin Phases

\* The state file of one worker is malformed when the workers are constructed
\* (__init__ loads it as it is, lines 34-41); the caller then invokes step() of
\* either worker in any order.
InitMalformed ==
    /\ data \in [W -> {r \in PlainRuns : Len(r) \in Lens}]
    /\ \E w \in W : \E st \in MalformedStates(w) :
          /\ store = [FreshWorld.store EXCEPT ![w] = <<st>>]
          /\ mem = [FreshWorld.mem EXCEPT ![w] = st]
    /\ stats = FreshWorld.stats
    /\ mail = FreshWorld.mail
    /\ sink = FreshWorld.sink
    /\ hist = NoHist
    /\ journal = NoJournal
    /\ twin = FreshWorld
    /\ active = [w \in W |-> TRUE]
    /\ steps = 0
    /\ result = <<>>
    /\ http = HttpIdle
    /\ logger = LoggerIdle
    /\ max_steps = DefaultMaxSteps
    /\ cpc = "free"

\* step() of worker w.  (Two workers that hold no unsent value can exchange
\* empty UNLO messages for ever; the job is followed for MaxWrites messages of
\* each worker.)
MalformedStep(w) ==
    /\ journal.writes[w] < MaxWrites
    /\ FreeStep(w)

NextMalformed == \E w \in W : MalformedStep(w)

SpecMalformed == InitMalformed /\ [][NextMalformed]_vars

\* ------------------------------------------- RobustHTTPClient.fetch runs
\* No merge job is running while the client fetches.
InitHttp ==
    /\ data = [w \in W |-> <<>>]
    /\ InitJob
    /\ max_steps = DefaultMaxSteps
    /\ cpc = "free"

\* fetch(url) is called: line 112
HttpFetch ==
    /\ http.pc = "idle"
    /\ http' = [HttpIdle EXCEPT !.pc = "loop"]
    /\ UNCHANGED <<MergeVars, logger>>

\* one iteration of the loop in which urlopen returns a response
HttpResponse ==
    /\ http.pc = "loop"
    /\ \E o \in {x \in Outcomes : x.how = "response"} : http' = Iteration(http, o)
    /\ UNCHANGED <<MergeVars, logger>>

\* one iteration of the loop in which urlopen raises HTTPError
HttpStatusError ==
    /\ http.pc = "loop"
    /\ \E o \in {x \in Outcomes : x.how = "HTTPError"} : http' = Iteration(http, o)
    /\ UNCHANGED <<MergeVars, logger>>

\* one iteration of the loop in which urlopen raises TimeoutError or URLError
HttpNoResponse ==
    /\ http.pc = "loop"
    /\ \E o \in {x \in Outcomes : x.how \in {"TimeoutError", "URLError"}} :
          http' = Iteration(http, o)
    /\ UNCHANGED <<MergeVars, logger>>

NextHttp ==
    \/ HttpFetch
    \/ HttpResponse
    \/ HttpStatusError
    \/ HttpNoResponse

SpecHttp == InitHttp /\ [][NextHttp]_vars

\* ---------------------------------------------------- EventLogger.run
\* No merge job and no fetch is running while the logger runs.
InitLogger ==
    /\ data = [w \in W |-> <<>>]
    /\ InitJob
    /\ max_steps = DefaultMaxSteps
    /\ cpc = "free"

\* EventLogger(source, log_file, buffer_size) over an empty log file, and the
\* entry of run (lines 63-74)
LoggerStart ==
    /\ logger.pc = "idle"
    /\ \E size \in 1..MaxBufferSize : logger' = [NewLogger(size) EXCEPT !.pc = "running"]
    /\ UNCHANGED <<MergeVars, http>>

\* one iteration of the loop: source.receive() returns a packet
LoggerReceive ==
    /\ logger.pc = "running"
    /\ Len(logger.got) < MaxReceives
    /\ \E pkt \in Packets : logger' = Receive(logger, pkt)
    /\ UNCHANGED <<MergeVars, http>>

\* source.receive() returns None, and run returns its statistics
LoggerTerminate ==
    /\ logger.pc = "running"
    /\ logger' = Terminate(logger)
    /\ UNCHANGED <<MergeVars, http>>

NextLogger ==
    \/ LoggerStart
    \/ LoggerReceive
    \/ LoggerTerminate

SpecLogger == InitLogger /\ [][NextLogger]_vars

\* ---------------------------------------------------- reading the output
RECURSIVE Digits(_)
\* the number of decimal digits of n >= 0
Digits(n) == IF n < 10 THEN 1 ELSE 1 + Digits(n \div 10)

RECURSIVE Pow10(_)
Pow10(k) == IF k = 0 THEN 1 ELSE 10 * Pow10(k - 1)

\* int() of the decimal text of a followed at once by the decimal text of b
Glue(a, b) == a * Pow10(Digits(b)) + b

RECURSIVE ParseTokens(_, _, _)
\* test(), lines 231-238: "int(x) for x in line.split(',') if x.strip()".  acc is
\* the list read so far, cur is <<>> or <<n>>, the number the text since the last
\* separator spells: values written with no separator between them run together.
ParseTokens(ts, acc, cur) ==
    IF ts = <<>> THEN acc \o cur
    ELSE IF Head(ts) = SEP THEN ParseTokens(Tail(ts), acc \o cur, <<>>)
    ELSE ParseTokens(Tail(ts), acc,
                     IF cur = <<>> THEN <<Head(ts)>> ELSE <<Glue(cur[1], Head(ts))>>)

\* the values read off the output file
SinkValues == ParseTokens(sink, <<>>, <<>>)

RECURSIVE SortedMerge(_, _)
\* sorted(data1 + data2) for two sorted lists (test(), line 240)
SortedMerge(a, b) ==
    IF a = <<>> THEN b
    ELSE IF b = <<>> THEN a
    ELSE IF Head(a) <= Head(b) THEN <<Head(a)>> \o SortedMerge(Tail(a), b)
    ELSE <<Head(b)>> \o SortedMerge(a, Tail(b))

\* how often v occurs in the sequence q
Count(v, q) == Cardinality({i \in 1..Len(q) : q[i] = v})

\* the persisted phase of worker w
Phase(w) == LoadState(World, w).phase

BothFinished == \A w \in W : Phase(w) = "DONE"

\* Coordinator.run is over: it returned its dict, or an exception left it
RunOver == cpc \in {"returned", "raised"}

\* ------------------------------------------------------------------ claims

\* C1: for every pair of sorted runs, Coordinator.run with the default budget
\* returns success = true and the values read off the output file are the
\* sorted merge of the two runs.
C1_RunYieldsSortedMerge ==
    RunOver => /\ cpc = "returned"
               /\ result[1].success
               /\ SinkValues = SortedMerge(data["A"], data["B"])

\* C1, on the runs the code handles: when neither run is empty the claim holds.
C1_NonEmptyRunsMerge ==
    (RunOver /\ data["A"] # <<>> /\ data["B"] # <<>>) =>
        /\ cpc = "returned"
        /\ result[1].success
        /\ SinkValues = SortedMerge(data["A"], data["B"])

\* C2: exactly-once.  In every reachable state no value has been appended to
\* the output more often than it occurs in the two runs together, and once both
\* workers are DONE every value is in the output exactly as often as in the two
\* runs.  (The chunk size is the code's, ChunkSize.)
C2_ExactlyOnce ==
    \A v \in 0..MaxVal :
        /\ Count(v, sink) <= Count(v, data["A"]) + Count(v, data["B"])
        /\ BothFinished => Count(v, sink) = Count(v, data["A"]) + Count(v, data["B"])

\* C2 witness: both workers are DONE after each of them sent a chunk (the values
\* of both runs changed hands), and the output holds more than one chunk.
C2_Witness ==
    /\ BothFinished
    /\ \A w \in W : journal.writes[w] >= 2
    /\ Len(SinkValues) > ChunkSize

\* C3: when exactly one of the two runs is empty, Coordinator.run completes,
\* the output is the non-empty run in full and in order, and each worker sent
\* exactly one DONE message (a single Final exchange).
C3_OneEmptyRun ==
    (RunOver /\ (data["A"] = <<>>) # (data["B"] = <<>>)) =>
        /\ cpc = "returned"
        /\ result[1].success
        /\ SinkValues = data["A"] \o data["B"]
        /\ \A w \in W : journal.finals[w] = 1

\* the last operation was a step() of a worker whose loaded phase was ph
SteppedFrom(ph) == hist.op = "step" /\ LoadState(hist.pre, hist.w).phase = ph

\* the files are as they were before the last operation
FilesUntouched ==
    /\ sink = hist.pre.sink
    /\ mail = hist.pre.mail
    /\ store = hist.pre.store

\* C4: backpressure.  A step() of a worker in LOCK whose inbox is empty appends
\* nothing to the output, writes no message, leaves the state file as it was and
\* returns True.
C4_Backpressure ==
    (SteppedFrom("LOCK") /\ hist.pre.mail[Peer(hist.w)] = <<>>) =>
        /\ FilesUntouched
        /\ hist.ret = "True"

\* C4 witness: a locked worker was stepped while its inbox was empty.
C4_Witness ==
    /\ SteppedFrom("LOCK")
    /\ hist.pre.mail[Peer(hist.w)] = <<>>
    /\ hist.pre.sink # <<>>

\* C5: a step() of a worker whose persisted phase is DONE returns False and has
\* no side effect: the inbox is not consumed, no message, no output, no save.
C5_FinishedIsQuiet ==
    SteppedFrom("DONE") => (FilesUntouched /\ hist.ret = "False")

\* C5 witness: a DONE worker was stepped while a message waited in its inbox.
C5_Witness ==
    /\ SteppedFrom("DONE")
    /\ hist.pre.mail[Peer(hist.w)] # <<>>

\* C6: under the Coordinator's round-robin both workers reach DONE, for every
\* pair of sorted runs: when run is over, both persisted phases are DONE.
C6_BothFinish == RunOver => BothFinished

\* C7: success = true only if both workers completed within the first max_steps
\* step() calls.
C7_SuccessWithinBudget ==
    (cpc = "returned" /\ result[1].success) => result[1].total_steps <= max_steps

\* C8: Coordinator.run never makes more than max_steps step() calls.
C8_StepsWithinBudget == steps <= max_steps

\* C9 (original): a worker re-constructed from its files behaves as the object
\* it replaces: same messages, same output, same persisted state, same return
\* values and the same reported statistics.
C9_ResumeSameStatistics ==
    /\ store = twin.store
    /\ mail = twin.mail
    /\ sink = twin.sink
    /\ hist.ret = hist.tret
    /\ stats = twin.stats

\* C9 (amended): a worker re-constructed from its files sends the same
\* messages, appends the same output, persists the same state and returns the
\* same values as the object it replaces.  (Its statistics start again at zero.)
C9_ResumeSameBehaviour ==
    /\ store = twin.store
    /\ mail = twin.mail
    /\ sink = twin.sink
    /\ hist.ret = hist.tret

\* C9 witness: a worker that was re-constructed after it had sent a message (its
\* counter is behind its twin's) has just sent another one.
C9_Witness ==
    /\ hist.op = "step"
    /\ mail[hist.w] # hist.pre.mail[hist.w]
    /\ stats[hist.w].messages_sent >= 1
    /\ stats[hist.w].messages_sent < twin.stats[hist.w].messages_sent

\* C10: whenever the persisted phase of a worker says that it sent a message
\* (LOCK, or DONE), write_msg ran for every state it saved.
C10_NoPhantomSend ==
    \A w \in W :
        Phase(w) \in {"LOCK", "DONE"} => journal.writes[w] = journal.saves[w]

\* C11: step() never raises during Coordinator.run, for every pair of sorted
\* runs, the empty ones included: every step() returns True or False.
C11_StepNeverRaises ==
    hist.op = "step" => hist.ret \in {"True", "False"}

\* C12: a step() that loads a malformed state (cursor beyond the run length, or
\* an unknown phase) aborts with an error, appends nothing to the output and
\* writes no message.
C12_MalformedStateIsFatal ==
    (hist.op = "step" /\ IsMalformed(LoadState(hist.pre, hist.w))) =>
        /\ hist.ret \notin {"True", "False"}
        /\ sink = hist.pre.sink
        /\ mail[hist.w] = hist.pre.mail[hist.w]

\* what the last operation added to a counter of worker w
Added(w, counter) == stats[w][counter] - hist.pre.stats[w][counter]

\* C13: a step() consumes at most one message from the inbox and writes at
\* most one message to the outbox (read_inbox and write_msg count their calls
\* in messages_received and messages_sent), and touches no counter of the peer.
C13_OneMessagePerStep ==
    hist.op = "step" =>
        /\ Added(hist.w, "messages_received") \in {0, 1}
        /\ Added(hist.w, "messages_sent") \in {0, 1}
        /\ Added(hist.w, "messages_received") = 0 =>
              mail[Peer(hist.w)] = hist.pre.mail[Peer(hist.w)]
        /\ Added(hist.w, "messages_sent") = 0 => mail[hist.w] = hist.pre.mail[hist.w]
        /\ stats[Peer(hist.w)] = hist.pre.stats[Peer(hist.w)]

\* C13 witness: a step that finished its worker consumed a message and wrote one.
C13_Witness ==
    /\ hist.op = "step"
    /\ Added(hist.w, "messages_received") = 1
    /\ Added(hist.w, "messages_sent") = 1
    /\ Phase(hist.w) = "DONE"

\* the last operation was a step() that wrote a message
Sent == hist.op = "step" /\ Added(hist.w, "messages_sent") > 0

\* the message in the outbox of the worker that stepped last
LastMsg == mail[hist.w][1]

\* where the values of LastMsg start in the sender's run, when they end at the
\* cursor the step stored
SliceFrom == LoadState(World, hist.w).index - Len(LastMsg.values)

\* C14: a message carries at most ChunkSize integers, and they are the slice of
\* the sender's run that starts at the sender's cursor (the loaded cursor moved
\* on by the values the step emitted itself) and ends at the cursor it stored.
C14_ChunkIsNextSlice ==
    Sent =>
        /\ Len(LastMsg.values) <= ChunkSize
        /\ SliceFrom = LoadState(hist.pre, hist.w).index + Added(hist.w, "comparisons")
        /\ LastMsg.values = Slice(data[hist.w], SliceFrom, LoadState(World, hist.w).index)
        /\ \A i \in 1..(Len(LastMsg.values) - 1) : LastMsg.values[i] <= LastMsg.values[i + 1]

\* C14 witness: a step emitted values of its own run and then sent the values
\* that follow them.
C14_Witness ==
    /\ Sent
    /\ LastMsg.values # <<>>
    /\ Added(hist.w, "comparisons") > 0
    /\ LastMsg.values[1] > 0

\* C15: every message written respects the limits noted on the Message
\* dataclass: at most MsgValuesMax integers, a msg_type of at most MsgTypeMax
\* characters.
C15_MessageLimits ==
    Sent =>
        /\ Len(LastMsg.values) <= MsgValuesMax
        /\ Len(LastMsg.msg_type) <= MsgTypeMax

\* C16: no step() stores a cursor smaller than the one it loaded (and the
\* peer's cursor is not touched).
C16_CursorMonotone ==
    hist.op = "step" =>
        \A w \in W : LoadState(World, w).index >= LoadState(hist.pre, w).index

\* C16 witness: a step loaded a cursor that had already moved and stored a
\* larger one.
C16_Witness ==
    /\ hist.op = "step"
    /\ LoadState(hist.pre, hist.w).index > 0
    /\ LoadState(World, hist.w).index > LoadState(hist.pre, hist.w).index

\* the output file is value, separator, value, ..., value
WellFormed ==
    /\ sink # <<>> => Len(sink) % 2 = 1
    /\ \A i \in 1..Len(sink) : (sink[i] = SEP) <=> (i % 2 = 0)

\* C17: the output file is always well formed (no leading separator, no two
\* adjacent separators, no two values without a separator), and the flag
\* stamped on a message is T iff the output file is non-empty.
C17_SeparatorPlacement ==
    /\ WellFormed
    /\ Sent => ((Head(LastMsg.msg_type) = "T") <=> (sink # <<>>))

\* C17 witness: both workers have appended values, and the last step sent a
\* message stamped T.
C17_Witness ==
    /\ Sent
    /\ Head(LastMsg.msg_type) = "T"
    /\ \A w \in W : stats[w].values_output >= 2

\* how often fetch has called ev
Calls(ev) == Cardinality({i \in 1..Len(http.log) : http.log[i].ev = ev})

\* the outcome of the last urlopen
LastGot == http.got[Len(http.got)]

\* the calls fetch made since the last urlopen
SinceLastRequest ==
    LET at == CHOOSE i \in 1..Len(http.log) :
                  /\ http.log[i].ev = "urlopen"
                  /\ \A j \in (i + 1)..Len(http.log) : http.log[j].ev # "urlopen"
    IN  SubSeq(http.log, at + 1, Len(http.log))

\* C18: a 4xx response is never retried.  When urlopen ends with a 4xx status,
\* fetch calls on_client_error once and nothing else (no on_retry, no
\* on_max_retries, no further urlopen) and returns False.
C18_ClientErrorNotRetried ==
    \A i \in 1..Len(http.got) :
        http.got[i].status \in 400..499 =>
            /\ i = Len(http.got)
            /\ http.pc = "returned" /\ http.ret = "False"
            /\ Calls("urlopen") = i
            /\ Calls("on_client_error") = 1
            /\ Calls("on_max_retries") = 0
            /\ Len(SinceLastRequest) = 1
            /\ SinceLastRequest[1].ev = "on_client_error"

\* C18 witness: a 4xx answer to a retry (the third request).
C18_Witness ==
    /\ Len(http.got) = 3
    /\ LastGot.status = 404
    /\ http.pc = "returned"

\* the outcome o of urlopen calls for a retry: 5xx, timeout, connection error
Retryable(o) ==
    \/ o.how \in {"TimeoutError", "URLError"}
    \/ 499 < o.status /\ o.status < 600

\* C19: fetch makes at most MAX_RETRIES retries, so at most MAX_RETRIES + 1
\* requests; on_retry is called once before each retry; when every attempt
\* failed retryably, on_max_retries is called once, as the last call, after
\* MAX_RETRIES + 1 requests, and fetch returns False.
C19_BoundedRetries ==
    /\ Calls("urlopen") <= MAX_RETRIES + 1
    /\ Calls("on_retry") <= MAX_RETRIES
    /\ Calls("urlopen") = Calls("on_retry") + (IF http.pc = "returned" THEN 1 ELSE 0)
    /\ \A i \in 2..Len(http.log) :
          http.log[i].ev = "urlopen" =>
              /\ i > 2
              /\ http.log[i - 1].ev = "sleep"
              /\ http.log[i - 2].ev = "on_retry"
    /\ (http.pc = "returned" /\ \A i \in 1..Len(http.got) : Retryable(http.got[i])) =>
          /\ Calls("urlopen") = MAX_RETRIES + 1
          /\ Calls("on_max_retries") = 1
          /\ http.log[Len(http.log)].ev = "on_max_retries"
          /\ http.ret = "False"
    /\ Calls("on_max_retries") <= 1

\* C19 witness: fetch gave up after a 5xx, a timeout and connection errors.
C19_Witness ==
    /\ http.pc = "returned"
    /\ Calls("on_max_retries") = 1
    /\ Calls("on_server_error") = 1
    /\ Calls("on_timeout") = 1
    /\ Calls("on_connection_error") = 2

\* C20: when fetch returned True for a 2xx response, on_success was called and
\* on_body_match was called for every monitored keyword in the body.
C20_BodyMatchCalled ==
    (http.pc = "returned" /\ http.ret = "True") =>
        /\ Calls("on_success") = 1
        /\ \A kw \in LastGot.body :
              \E i \in 1..Len(http.log) :
                  http.log[i].ev = "on_body_match" /\ http.log[i].arg = kw

\* the type, without its flag, of the message that was in the inbox of the
\* worker that stepped last, <<>> when there was none
InboundTag ==
    LET inbox == hist.pre.mail[Peer(hist.w)]
    IN  IF inbox = <<>> THEN <<>> ELSE Tail(inbox[1].msg_type)

\* the values of that message
InboundValues ==
    LET inbox == hist.pre.mail[Peer(hist.w)]
    IN  IF inbox = <<>> THEN <<>> ELSE inbox[1].values

\* the state the worker that stepped last loaded, and the state it left in the file
Loaded == LoadState(hist.pre, hist.w)
Stored == LoadState(World, hist.w)

\* C23: steady state.  When a step from INIT or LOCK consumed an UNLO message
\* and sent a message, then either the cursor it stored is the run length, the
\* message is DONE and the stored phase is DONE, or the cursor is short of the
\* run length, the message is UNLO and the stored phase is LOCK.
C23_SteadyStateFinal ==
    (Sent /\ InboundTag = UNLO) =>
        IF Stored.index = Len(data[hist.w])
        THEN Tail(LastMsg.msg_type) = DONE /\ Stored.phase = "DONE"
        ELSE Tail(LastMsg.msg_type) = UNLO /\ Stored.phase = "LOCK"

\* C24: first move.  A step of a worker in INIT with an empty inbox appends
\* nothing to the output, sends the first min(ChunkSize, len) values of its run
\* and stores the cursor past them; with a run of at most ChunkSize values
\* (the empty run too) the message is DONE, the phase DONE and step() returns
\* False, else the message is UNLO, the phase LOCK and step() returns True.
C24_FirstMove ==
    (SteppedFrom("INIT") /\ InboundTag = <<>> /\ hist.pre.mail[Peer(hist.w)] = <<>>) =>
        LET d == data[hist.w]
            k == Min(ChunkSize, Len(d))
        IN  /\ sink = hist.pre.sink
            /\ Sent
            /\ LastMsg.values = SubSeq(d, 1, k)
            /\ Stored.index = k
            /\ IF Len(d) <= ChunkSize
               THEN /\ Tail(LastMsg.msg_type) = DONE
                    /\ Stored.phase = "DONE"
                    /\ hist.ret = "False"
               ELSE /\ Tail(LastMsg.msg_type) = UNLO
                    /\ Stored.phase = "LOCK"
                    /\ hist.ret = "True"

\* C24 witness: the first move of a worker whose run is longer than a chunk.
C24_Witness ==
    /\ SteppedFrom("INIT")
    /\ hist.pre.mail[Peer(hist.w)] = <<>>
    /\ Len(data[hist.w]) > ChunkSize

RECURSIVE Checkpointed(_, _)
\* the values appended when the checkpoints cps are applied in order to the
\* rest own of a run, and the rest is flushed after them: before each
\* checkpoint go the own values smaller than it
Checkpointed(own, cps) ==
    IF cps = <<>> THEN own
    ELSE IF own # <<>> /\ Head(own) < Head(cps)
         THEN <<Head(own)>> \o Checkpointed(Tail(own), cps)
         ELSE <<Head(cps)>> \o Checkpointed(own, Tail(cps))

\* the values among the tokens ts, in order
ValuesOf(ts) == SelectSeq(ts, LAMBDA t : t # SEP)

\* C25: peer finished.  A step of a worker that is not DONE and consumes a DONE
\* message appends the checkpoints of the message, each after the own values
\* smaller than it, then the rest of its run; it stores phase DONE with the
\* cursor at the run length, and writes one DONE message without values.
C25_PeerFinished ==
    (hist.op = "step" /\ Loaded.phase # "DONE" /\ InboundTag = DONE) =>
        /\ hist.ret = "False"
        /\ ValuesOf(SubSeq(sink, Len(hist.pre.sink) + 1, Len(sink)))
              = Checkpointed(Slice(data[hist.w], Loaded.index, Len(data[hist.w])),
                             InboundValues)
        /\ Stored.phase = "DONE"
        /\ Stored.index = Len(data[hist.w])
        /\ Added(hist.w, "messages_sent") = 1
        /\ Tail(LastMsg.msg_type) = DONE
        /\ LastMsg.values = <<>>

\* C25 for a worker whose run is not empty (the case the code handles)
C25_PeerFinishedNonEmpty ==
    data[hist.w] # <<>> => C25_PeerFinished

C27_NoOverwrite ==
    /\ Sent => hist.pre.mail[hist.w] = <<>>
    /\ \A w \in W : stats[w].messages_sent <= stats[w].messages_received + 1

\* C27 witness: a worker sends its third message.
C27_Witness ==
    /\ Sent
    /\ stats[hist.w].messages_sent = 3

\* C28: once both workers are DONE, no message is left in either mailbox.
C28_MailboxesDrained ==
    BothFinished => \A w \in W : mail[w] = <<>>

\* C29: a step that reads a message whose type is neither UNLO nor DONE ends
\* in an error.
C29_ForeignSurfaced ==
    (hist.op = "step" /\ Loaded.phase # "DONE" /\ InboundTag \in ForeignTags) =>
        hist.ret \notin {"True", "False"}

\* C30: a persisted phase DONE goes with a cursor at the run length, and a
\* step() of a worker whose persisted phase is DONE leaves its state file alone.
C30_FinishedTerminal ==
    /\ \A w \in W : Phase(w) = "DONE" => LoadState(World, w).index = Len(data[w])
    /\ SteppedFrom("DONE") => store[hist.w] = hist.pre.store[hist.w]

\* C30 witness: step() is called on a DONE worker that sent its run in two chunks.
C30_Witness ==
    /\ SteppedFrom("DONE")
    /\ journal.writes[hist.w] >= 2
    /\ Len(data[hist.w]) > ChunkSize

\* the sequence numbers in the lines of the log file
Logged == {logger.log[i].sequence : i \in 1..Len(logger.log)}

\* C21: no sequence number is in two lines of the log file, and
\* packets_written is the number of distinct sequence numbers in the log file.
C21_NoDuplicateLines ==
    /\ \A i, j \in 1..Len(logger.log) :
          logger.log[i].sequence = logger.log[j].sequence => i = j
    /\ logger.stats.packets_written = Cardinality(Logged)

\* C21 witness: run returned after it discarded a duplicate of a packet that
\* it had written and received a packet again that it had found corrupted.
C21_Witness ==
    /\ logger.pc = "returned"
    /\ logger.stats.duplicates_discarded >= 1
    /\ logger.stats.retransmits_received >= 1
    /\ Len(logger.log) >= 2

\* C22: when run has returned, gaps is the number of sequence numbers in
\* 0..max_receive that are in no line of the log file; it is not negative.
C22_GapsCountMissing ==
    logger.pc = "returned" =>
        /\ logger.stats.gaps = Cardinality((0..logger.max_receive) \ Logged)
        /\ logger.stats.gaps >= 0

\* the sequence numbers that run received in a packet with a valid checksum
ValidReceived == {logger.got[i].sequence : i \in {k \in 1..Len(logger.got) : logger.got[k].valid}}

\* C34: when run has returned, every sequence number that it received with a
\* valid checksum is in a line of the log file.
C34_NoSilentLoss ==
    logger.pc = "returned" => ValidReceived \subseteq Logged

\* the values of worker w's run from its stored cursor on
Unsent(w) == Slice(data[w], LoadState(World, w).index, Len(data[w]))

\* the values of the message in worker w's outbox, if there is one
InFlight(w) == IF mail[w] = <<>> THEN <<>> ELSE mail[w][1].values

\* the values of q are in non-decreasing order
NonDecreasing(q) == \A i \in 1..(Len(q) - 1) : q[i] <= q[i + 1]

\* C31: in every reachable state the values read off the output file are in
\* non-decreasing order, and every value of either run from the worker's cursor
\* on and every value of a message in a mailbox is at least the last value of
\* the output file.
C31_PrefixSorted ==
    \A out \in {SinkValues} :
        /\ NonDecreasing(out)
        /\ out # <<>> =>
              \A w \in W :
                  \A rest \in {Unsent(w) \o InFlight(w)} :
                      \A i \in 1..Len(rest) : rest[i] >= out[Len(out)]

\* C31 witness: the output file holds both values, its last value is the
\* larger one, a worker still has values past its cursor and a chunk is in a
\* mailbox.
C31_Witness ==
    /\ Count(0, sink) >= 1
    /\ Count(1, sink) >= 1
    /\ \E w \in W : Unsent(w) # <<>>
    /\ \E w \in W : InFlight(w) # <<>>

\* both workers are DONE and the output file reads as the sorted merge
Merged == BothFinished /\ SinkValues = SortedMerge(data["A"], data["B"])

\* C32: for two non-empty sorted runs, whatever the order in which the caller
\* invokes step() of the two workers, as long as it keeps stepping each worker
\* that has something to do, both workers become DONE and the output file
\* reads as the sorted merge of the two runs, and it stays so.
C32_ScheduleIndependent == <>[]Merged

\* C32 witness: the merge of two runs holding both values is complete after
\* more than one chunk, and the last call was a step() of a DONE worker (a call
\* Coordinator.run never makes).
C32_Witness ==
    /\ Merged
    /\ Count(0, sink) >= 1 /\ Count(1, sink) >= 1
    /\ Len(SinkValues) > ChunkSize
    /\ hist.op = "step" /\ hist.pre = World

\* C32, the fairness of SpecSchedule: a worker that step() has just been
\* called on has nothing to do until its peer moves.
C32_SteppedIsIdle == hist.op = "step" => Idle(hist.w)

\* C33: every step() that Coordinator.run invokes and that returns finds a
\* message in its inbox unless the worker is in INIT, and writes exactly one
\* message; when run returns, total_steps is messages_sent of worker A plus
\* messages_sent of worker B.
C33_NoWastedTurn ==
    /\ (hist.op = "step" /\ hist.ret # "IndexError") =>
          /\ Loaded.phase # "INIT" => hist.pre.mail[Peer(hist.w)] # <<>>
          /\ Added(hist.w, "messages_sent") = 1
          /\ mail[hist.w] # <<>>
    /\ cpc = "returned" =>
          result[1].total_steps = stats["A"].messages_sent + stats["B"].messages_sent

\* C33 witness: run returned after more than two steps, the last of them by a
\* worker that was waiting for its peer.
C33_Witness ==
    /\ cpc = "returned"
    /\ result[1].success
    /\ result[1].total_steps > 2
    /\ stats["A"].messages_sent >= 2

====
